---- MODULE Spec2Model ----
(***************************************************************************)
(* Two-dimensional parity code of namespace ParityChecking: the ParityHdr  *)
(* class (derivation from a byte array, check sum, serialize /             *)
(* load_from_serialized) and repair_byte_array / find_error_locations.     *)
(*                                                                         *)
(* A byte array is a sequence of naturals below 256; C++ offset i is       *)
(* element i+1 of the sequence.  A ParityHdr is the record                 *)
(*   [check_sum, B, N, row_parities, col_parities]                         *)
(* where the two parity fields are the heap arrays the header owns: their  *)
(* Len is the allocated size (<< >> for nullptr), which the code keeps     *)
(* apart from the fields B and N.                                          *)
(***************************************************************************)
EXTENDS Integers, Sequences, FiniteSets, TLC

VARIABLES
    s,          \* the sender's byte array (demo1_main.cc: s)
    s_hdr,      \* the sender's ParityHdr, constructed from s
    ser_PH,     \* the bytes handed to load_from_serialized (<< >>: none)
    prev_hdr,   \* the target header as it was when the last load was entered
    rcvd_hdr,   \* the receiver's ParityHdr, target of load_from_serialized
    ret,        \* what the last load_from_serialized returned
    ret_line,   \* the source line of the return statement it left by (0: none)
    t_rcvd,     \* the byte array as it arrived at the receiver
    t,          \* the receiver's byte array, repaired in place
    t_hdr,      \* the ParityHdr the receiver constructed from t
    obs_hdr,    \* the header passed as t_hdr to the last repair_byte_array
    what,       \* outcome of the last repair_byte_array: "none", "ok" or what()
    pc          \* position in the protocol

vars == <<s, s_hdr, ser_PH, prev_hdr, rcvd_hdr, ret, ret_line,
          t_rcvd, t, t_hdr, obs_hdr, what, pc>>

(***************************************************************************)
(* Bounds of the model.                                                    *)
(***************************************************************************)
MaxLen == 3        \* codec: the sender's byte arrays have B * N <= MaxLen
MaxCells == 3      \* repair: the sender's byte arrays have B * N <= MaxCells
MaxFlips == 2      \* repair: bits flipped in one transmission of s

\* Byte values of the sender's arrays: 0x00 and the demo's fill byte 0xfe.
ByteVals == {0, 254}

(***************************************************************************)
(* Machine types.                                                          *)
(***************************************************************************)
\* B and N are unsigned short and the parities unsigned char, so every sum the
\* code accumulates in an unsigned int is at most 256 * (B + N) < 2^25: the
\* 32-bit accumulators never wrap and are plain naturals here.
ByteMod == 256             \* unsigned char
SizeofInt == 4
SizeofShort == 2

\* a ^ b on unsigned char, bit by bit from the least significant one
RECURSIVE Xor8(_, _)
Xor8(a, b) ==
    IF a = 0 THEN b
    ELSE IF b = 0 THEN a
    ELSE ((a + b) % 2) + 2 * Xor8(a \div 2, b \div 2)

\* the n bytes of x in memory order (little-endian object representation)
Bytes(x, n) == [k \in 1..n |-> (x \div (ByteMod ^ (k - 1))) % ByteMod]

\* the unsigned integer held in the n bytes at offset off of byte array a
RECURSIVE ReadUInt(_, _, _)
ReadUInt(a, off, n) ==
    IF n = 0 THEN 0
    ELSE a[off + 1] + ByteMod * ReadUInt(a, off + 1, n - 1)

\* sum of a[0 .. n-1] accumulated in an unsigned int
RECURSIVE SumBytes(_, _, _)
SumBytes(a, off, n) ==
    IF n = 0 THEN 0
    ELSE SumBytes(a, off, n - 1) + a[off + n]

(***************************************************************************)
(* ParityHdr.                                                              *)
(***************************************************************************)
\* ParityHdr::ParityHdr()
EmptyHdr ==
    [check_sum |-> 0, B |-> 0, N |-> 0,
     row_parities |-> << >>, col_parities |-> << >>]

\* ParityHdr::byte_parity: p ^= c & 1; c >>= 1, eight times
RECURSIVE byte_parity_loop(_, _, _)
byte_parity_loop(c, i, p) ==
    IF i >= 8 THEN p
    ELSE byte_parity_loop(c \div 2, i + 1, Xor8(p, c % 2))

byte_parity(c) == byte_parity_loop(c, 0, 0)

\* ParityHdr::calculate_parities: one pass over the B * N bytes
RECURSIVE calculate_parities_loop(_, _, _, _, _, _)
calculate_parities_loop(B, L, byte_array, i, rp, cp) ==
    IF i >= L THEN [row_parities |-> rp, col_parities |-> cp]
    ELSE calculate_parities_loop(B, L, byte_array, i + 1,
            [rp EXCEPT ![(i % B) + 1] = Xor8(@, byte_array[i + 1])],
            [cp EXCEPT ![(i \div B) + 1] =
                            Xor8(@, byte_parity(byte_array[i + 1]))])

calculate_parities(B, N, byte_array) ==
    calculate_parities_loop(B, B * N, byte_array, 0,
                            [k \in 1..B |-> 0], [k \in 1..N |-> 0])

\* ParityHdr::calc_check_sum: B + N + sum(row_parities) + sum(col_parities)
calc_check_sum(h) ==
    (h.B + h.N) + SumBytes(h.row_parities, 0, h.B)
                + SumBytes(h.col_parities, 0, h.N)

\* ParityHdr::confirm_check_sum
confirm_check_sum(h) == h.check_sum = calc_check_sum(h)

\* ParityHdr::ParityHdr(B, N, byte_array)
ParityHdr(B, N, byte_array) ==
    LET p == calculate_parities(B, N, byte_array)
        h == [check_sum |-> 0, B |-> B, N |-> N,
              row_parities |-> p.row_parities,
              col_parities |-> p.col_parities]
    IN  [h EXCEPT !.check_sum = calc_check_sum(h)]

\* operator==: scalars, then memcmp of B row and N column parities
HdrEq(lhs, rhs) ==
    /\ lhs.check_sum = rhs.check_sum
    /\ lhs.B = rhs.B
    /\ lhs.N = rhs.N
    /\ SubSeq(lhs.row_parities, 1, lhs.B) = SubSeq(rhs.row_parities, 1, lhs.B)
    /\ SubSeq(lhs.col_parities, 1, lhs.N) = SubSeq(rhs.col_parities, 1, lhs.N)

(***************************************************************************)
(* Wire format.                                                            *)
(***************************************************************************)
\* the leading sizeof(int) + 2*sizeof(short) bytes of the object
PrefixLen == SizeofInt + 2 * SizeofShort
\* offset of the row parity sum, and of the parity payload
SumOffset == 2 * SizeofInt + 4 * SizeofShort
PayloadOffset == 3 * SizeofInt + 4 * SizeofShort

\* the first PrefixLen bytes of a ParityHdr object: check_sum, B, N
PrefixBytes(h) ==
    Bytes(h.check_sum, SizeofInt) \o Bytes(h.B, SizeofShort)
        \o Bytes(h.N, SizeofShort)

\* ParityHdr::serialize
serialize(h) ==
    PrefixBytes(h) \o PrefixBytes(h)
        \o Bytes(SumBytes(h.row_parities, 0, h.B), SizeofInt)
        \o SubSeq(h.row_parities, 1, h.B)
        \o SubSeq(h.col_parities, 1, h.N)

\* line 56: memcmp of the two copies of (check_sum, B, N)
PrefixMismatch(ser) ==
    SubSeq(ser, 1, PrefixLen) # SubSeq(ser, PrefixLen + 1, 2 * PrefixLen)

\* mutant of AdoptPrefix: the old arrays are released as soon as the prefix is
\* adopted, before the remaining checks
AdoptPrefixReleasing(h, ser) ==
    [h EXCEPT !.check_sum = ReadUInt(ser, 0, SizeofInt),
              !.B = ReadUInt(ser, SizeofInt, SizeofShort),
              !.N = ReadUInt(ser, SizeofInt + SizeofShort, SizeofShort),
              !.row_parities = << >>,
              !.col_parities = << >>]

\* line 58: memcpy(this, ser_PH, sizeof(int) + 2*sizeof(short))
AdoptPrefix(h, ser) ==
    [h EXCEPT !.check_sum = ReadUInt(ser, 0, SizeofInt),
              !.B = ReadUInt(ser, SizeofInt, SizeofShort),
              !.N = ReadUInt(ser, SizeofInt + SizeofShort, SizeofShort)]

\* mutant of RowSumMismatch: the transmitted row parity sum is not compared
RowSumUnchecked(h, ser) == FALSE

\* lines 62-65: the sum of the B payload bytes against the transmitted sum;
\* the two unsigned ints differ iff their object representations do
RowSumMismatch(h, ser) ==
    Bytes(SumBytes(ser, PayloadOffset, h.B), SizeofInt)
        # SubSeq(ser, SumOffset + 1, SumOffset + SizeofInt)

\* mutant of CopyParities: the column parities are copied from the start of
\* the payload (the "+ B" of line 73 forgotten)
CopyParitiesSameOffset(h, ser) ==
    [h EXCEPT
       !.row_parities = SubSeq(ser, PayloadOffset + 1, PayloadOffset + h.B),
       !.col_parities = SubSeq(ser, PayloadOffset + 1, PayloadOffset + h.N)]

\* lines 67-73: delete[] both arrays, allocate B and N bytes, copy the payload
CopyParities(h, ser) ==
    [h EXCEPT
       !.row_parities = SubSeq(ser, PayloadOffset + 1, PayloadOffset + h.B),
       !.col_parities = SubSeq(ser, PayloadOffset + h.B + 1,
                               PayloadOffset + h.B + h.N)]

\* ParityHdr::load_from_serialized: the header afterwards, the value
\* returned and the line of the return statement taken
load_from_serialized(h, ser) ==
    IF PrefixMismatch(ser)
    THEN [hdr |-> h, ret |-> FALSE, line |-> 57]
    ELSE
    LET h1 == AdoptPrefix(h, ser) IN
    IF h1.B + h1.N > h1.check_sum
    THEN [hdr |-> h1, ret |-> FALSE, line |-> 60]
    ELSE
    IF RowSumMismatch(h1, ser)
    THEN [hdr |-> h1, ret |-> FALSE, line |-> 66]
    ELSE
    LET h2 == CopyParities(h1, ser)
    IN  [hdr |-> h2, ret |-> confirm_check_sum(h2), line |-> 74]

(***************************************************************************)
(* Transmission (demo1_main.cc: transmit) and the inputs of a load.        *)
(***************************************************************************)
\* s[idx / 8] ^= 0x80 >> idx % 8
FlipBit(a, idx) ==
    [a EXCEPT ![(idx \div 8) + 1] = Xor8(@, 128 \div (2 ^ (idx % 8)))]

\* transmit: what may arrive of the bytes cs when idx, starting at from,
\* moves forward through the 8 * Len(cs) bit positions and at most k of the
\* positions it stops at are flipped
RECURSIVE transmit(_, _, _)
transmit(cs, from, k) ==
    IF k = 0 THEN {cs}
    ELSE {cs} \cup UNION { transmit(FlipBit(cs, idx), idx + 1, k - 1) :
                             idx \in from..(8 * Len(cs) - 1) }

\* Byte sequences laid out as a serialized header, both copies of the prefix
\* alike, whose fields are arbitrary: what a caller may hand to
\* load_from_serialized besides a transmitted header.
ForgedDims == {1}
ForgedRowBytes == {3}
ForgedColBytes == {1, 2}

InputBytes(cs, B, N, sum, rp, cp) ==
    LET prefix == Bytes(cs, SizeofInt) \o Bytes(B, SizeofShort)
                      \o Bytes(N, SizeofShort)
    IN  prefix \o prefix \o Bytes(sum, SizeofInt) \o rp \o cp

\* the check sum that makes the fields consistent
GoodSum(B, N, rp, cp) == B + N + SumBytes(rp, 0, B) + SumBytes(cp, 0, N)

ArbitraryInputs ==
    UNION { UNION { UNION {
        { InputBytes(cs, B, N, sum, rp, cp) :
            cs \in {0, GoodSum(B, N, rp, cp), GoodSum(B, N, rp, cp) + 1},
            sum \in {SumBytes(rp, 0, B), SumBytes(rp, 0, B) + 1} } :
        cp \in [1..N -> ForgedColBytes] } :
        rp \in [1..B -> ForgedRowBytes] } :
        B \in ForgedDims, N \in ForgedDims }

(***************************************************************************)
(* Codec protocol: the sender's header is serialized and transmitted, or   *)
(* some other byte sequence is supplied, and the receiver loads it into    *)
(* rcvd_hdr, again and again (demo1_main.cc lines 56-71).                  *)
(***************************************************************************)
Dims(maxlen) ==
    {d \in (1..maxlen) \X (1..maxlen) : d[1] * d[2] <= maxlen}

Init ==
    /\ \E d \in Dims(MaxLen) :
         /\ s \in [1..(d[1] * d[2]) -> ByteVals]
         /\ s_hdr = ParityHdr(d[1], d[2], s)
    /\ ser_PH = << >>
    /\ prev_hdr = EmptyHdr
    /\ rcvd_hdr = EmptyHdr
    /\ ret = FALSE
    /\ ret_line = 0
    /\ t_rcvd = << >>
    /\ t = << >>
    /\ t_hdr = EmptyHdr
    /\ obs_hdr = EmptyHdr
    /\ what = "none"
    /\ pc = "idle"

\* transmit(s_hdr_ser, n_bytes): the serialized sender header arrives with
\* at most one bit flipped
TransmitHdr ==
    /\ pc = "idle"
    /\ ser_PH' \in transmit(serialize(s_hdr), 0, 1)
    /\ pc' = "sent"
    /\ UNCHANGED <<s, s_hdr, prev_hdr, rcvd_hdr, ret, ret_line,
                   t_rcvd, t, t_hdr, obs_hdr, what>>

\* any other byte sequence is handed to the receiver
Supply ==
    /\ pc = "idle"
    /\ ser_PH' \in ArbitraryInputs
    /\ pc' = "sent"
    /\ UNCHANGED <<s, s_hdr, prev_hdr, rcvd_hdr, ret, ret_line,
                   t_rcvd, t, t_hdr, obs_hdr, what>>

\* check_sum_match = rcvd_hdr.load_from_serialized(rcvd_hdr_ser)
Load ==
    /\ pc = "sent"
    /\ LET r == load_from_serialized(rcvd_hdr, ser_PH)
       IN  /\ rcvd_hdr' = r.hdr
           /\ ret' = r.ret
           /\ ret_line' = r.line
    /\ prev_hdr' = rcvd_hdr
    /\ pc' = "loaded"
    /\ UNCHANGED <<s, s_hdr, ser_PH, t_rcvd, t, t_hdr, obs_hdr, what>>

\* delete[] rcvd_hdr_ser; the receiver waits for the next transmission
Release ==
    /\ pc = "loaded"
    /\ ser_PH' = << >>
    /\ prev_hdr' = EmptyHdr
    /\ ret_line' = 0
    /\ pc' = "idle"
    /\ UNCHANGED <<s, s_hdr, rcvd_hdr, ret, t_rcvd, t, t_hdr, obs_hdr, what>>

Next == TransmitHdr \/ Supply \/ Load \/ Release

Spec == Init /\ [][Next]_vars

(***************************************************************************)
(* Repair.                                                                 *)
(***************************************************************************)
\* what() of the exceptions thrown; "ok" is a return without exception
Ok == "ok"
BadCheckSum == "BadCheckSum() in repair_byte_array"
DimensionMismatch == "ParityHdr DimensionMismatch in repair_byte_array."
NoCol == "In find_error_locations, Couldn't locate a col with a parity mismatch.\n"
MultiCol == "In find_error_locations, More than 1 col had a parity mismatch.\n"
NoRow == "In find_error_locations, Couldn't locate a row with a parity mismatch.\n"
MultiRow == "In find_error_locations, More than 1 row had a parity mismatch.\n"
MultiBit == "In find_error_locations, More than 1 bad bit found in the bad byte.\n"

\* the class of the exception thrown with a given what()
ExceptionClass(w) ==
    IF w \in {NoCol, MultiCol, NoRow, MultiRow, MultiBit} THEN "PC_Exception"
    ELSE IF w \in {BadCheckSum, DimensionMismatch} THEN "std::runtime_error"
    ELSE "none"

\* mutant of count_mismatches: the scan stops at the first mismatch
RECURSIVE count_mismatches_first_only(_, _, _, _, _, _)
count_mismatches_first_only(a, b, n, k, n_errors, last) ==
    IF k >= n THEN [n_errors |-> n_errors, last |-> last]
    ELSE IF a[k + 1] # b[k + 1]
         THEN [n_errors |-> n_errors + 1, last |-> k]
         ELSE count_mismatches_first_only(a, b, n, k + 1, n_errors, last)

\* lines 135-141 and 148-154: count the places where two arrays differ and
\* keep the last one (-1: none)
RECURSIVE count_mismatches(_, _, _, _, _, _)
count_mismatches(a, b, n, k, n_errors, last) ==
    IF k >= n THEN [n_errors |-> n_errors, last |-> last]
    ELSE IF a[k + 1] # b[k + 1]
         THEN count_mismatches(a, b, n, k + 1, n_errors + 1, k)
         ELSE count_mismatches(a, b, n, k + 1, n_errors, last)

\* lines 161-170: scan flips from its most significant bit, count the set
\* bits and keep the position of the last one
RECURSIVE count_flips(_, _, _, _)
count_flips(flips, b, flipped_bit, cnt) ==
    IF b >= 8 THEN [flipped_bit |-> flipped_bit, cnt |-> cnt]
    ELSE IF flips \div 128 = 1
         THEN count_flips((2 * flips) % ByteMod, b + 1, b, cnt + 1)
         ELSE count_flips((2 * flips) % ByteMod, b + 1, flipped_bit, cnt)

\* lines 160-176 of find_error_locations: the bad bit of byte row i
locate_bit(rcvd_hdr_, t_hdr_, i, j) ==
    LET f == count_flips(Xor8(rcvd_hdr_.row_parities[i + 1],
                              t_hdr_.row_parities[i + 1]), 0, -1, 0)
    IN  IF f.cnt # 1 THEN [what |-> MultiBit, i |-> i, j |-> j]
        ELSE [what |-> Ok, i |-> 8 * i + f.flipped_bit, j |-> j]

\* lines 147-158 of find_error_locations: the byte row with the error
locate_row(rcvd_hdr_, t_hdr_) ==
    count_mismatches(rcvd_hdr_.row_parities, t_hdr_.row_parities,
                     rcvd_hdr_.B, 0, 0, -1)

\* lines 134-145 of find_error_locations: the column with the error
locate_col(rcvd_hdr_, t_hdr_) ==
    count_mismatches(rcvd_hdr_.col_parities, t_hdr_.col_parities,
                     rcvd_hdr_.N, 0, 0, -1)

\* mutant of find_error_locations: the rows are examined before the columns
find_error_locations_rows_first(rcvd_hdr_, t_hdr_) ==
    LET c == locate_col(rcvd_hdr_, t_hdr_)
        r == locate_row(rcvd_hdr_, t_hdr_)
    IN  IF r.n_errors = 0 THEN [what |-> NoRow, i |-> r.last, j |-> -1]
        ELSE IF r.n_errors > 1 THEN [what |-> MultiRow, i |-> r.last, j |-> -1]
        ELSE IF c.n_errors = 0 THEN [what |-> NoCol, i |-> r.last, j |-> c.last]
        ELSE IF c.n_errors > 1
             THEN [what |-> MultiCol, i |-> r.last, j |-> c.last]
        ELSE locate_bit(rcvd_hdr_, t_hdr_, r.last, c.last)

\* find_error_locations: what it throws (Ok: nothing) and *i, *j
find_error_locations(rcvd_hdr_, t_hdr_) ==
    LET c == locate_col(rcvd_hdr_, t_hdr_) IN
    IF c.n_errors = 0 THEN [what |-> NoCol, i |-> -1, j |-> c.last]
    ELSE IF c.n_errors > 1 THEN [what |-> MultiCol, i |-> -1, j |-> c.last]
    ELSE
    LET r == locate_row(rcvd_hdr_, t_hdr_) IN
    IF r.n_errors = 0 THEN [what |-> NoRow, i |-> r.last, j |-> c.last]
    ELSE IF r.n_errors > 1 THEN [what |-> MultiRow, i |-> r.last, j |-> c.last]
    ELSE locate_bit(rcvd_hdr_, t_hdr_, r.last, c.last)

\* mutant of fix_bad_bit: the byte array is addressed row by row
fix_bad_bit_row_major(rcvd_hdr_, t_, i, j) ==
    [t_ EXCEPT ![(i \div 8) * rcvd_hdr_.N + j + 1] =
                   Xor8(@, 128 \div (2 ^ (i % 8)))]

\* mutant of fix_bad_bit: the bits of a byte are counted from the low end
\* (1 << i % 8 for 0x80 >> i % 8)
fix_bad_bit_lsb_first(rcvd_hdr_, t_, i, j) ==
    [t_ EXCEPT ![j * rcvd_hdr_.B + (i \div 8) + 1] = Xor8(@, 2 ^ (i % 8))]

\* line 114: t[j * rcvd_hdr.B + i / 8] ^= 0x80 >> i % 8
fix_bad_bit(rcvd_hdr_, t_, i, j) ==
    [t_ EXCEPT ![j * rcvd_hdr_.B + (i \div 8) + 1] =
                   Xor8(@, 128 \div (2 ^ (i % 8)))]

\* lines 104-116 of repair_byte_array: two unequal headers
repair_unequal(rcvd_hdr_, t_hdr_, t_) ==
    IF rcvd_hdr_.B # t_hdr_.B \/ rcvd_hdr_.N # t_hdr_.N
    THEN [t |-> t_, what |-> DimensionMismatch]
    ELSE
    LET loc == find_error_locations(rcvd_hdr_, t_hdr_)
    IN  IF loc.what # Ok THEN [t |-> t_, what |-> loc.what]
        ELSE [t |-> fix_bad_bit(rcvd_hdr_, t_, loc.i, loc.j), what |-> Ok]

\* mutant of repair_byte_array: equal headers are not told apart from
\* unequal ones (the early return of line 101 missing)
repair_byte_array_no_early_return(rcvd_hdr_, t_hdr_, t_) ==
    IF ~confirm_check_sum(rcvd_hdr_)
    THEN [t |-> t_, what |-> BadCheckSum]
    ELSE repair_unequal(rcvd_hdr_, t_hdr_, t_)

\* mutant of repair_byte_array: the headers are compared before the check
\* sum of rcvd_hdr is confirmed
repair_byte_array_compare_first(rcvd_hdr_, t_hdr_, t_) ==
    IF HdrEq(rcvd_hdr_, t_hdr_) THEN [t |-> t_, what |-> Ok]
    ELSE IF ~confirm_check_sum(rcvd_hdr_)
    THEN [t |-> t_, what |-> BadCheckSum]
    ELSE repair_unequal(rcvd_hdr_, t_hdr_, t_)

\* repair_byte_array: the byte array afterwards and what was thrown
repair_byte_array(rcvd_hdr_, t_hdr_, t_) ==
    IF ~confirm_check_sum(rcvd_hdr_)
    THEN [t |-> t_, what |-> BadCheckSum]
    ELSE IF HdrEq(rcvd_hdr_, t_hdr_) THEN [t |-> t_, what |-> Ok]
    ELSE repair_unequal(rcvd_hdr_, t_hdr_, t_)

(***************************************************************************)
(* Repair protocol (demo1_main.cc lines 56-117): the receiver loads a      *)
(* header into rcvd_hdr, receives the byte array as t, constructs t_hdr    *)
(* from t and calls repair_byte_array.                                     *)
(***************************************************************************)
\* The sender's byte arrays: every array over ByteVals with B * N <= MaxCells,
\* the 3 x 3 array of zero bytes, and two 2 x 2 arrays.
RepairArrays ==
    { <<d[1], d[2], a>> : d \in Dims(MaxCells),
                          a \in [1..MaxCells -> ByteVals] }

SenderArrays ==
    { <<x[1], x[2], SubSeq(x[3], 1, x[1] * x[2])>> : x \in RepairArrays }
        \cup { <<3, 3, <<0, 0, 0, 0, 0, 0, 0, 0, 0>>>>,
               <<2, 2, <<254, 254, 254, 254>>>>,
               <<2, 2, <<254, 0, 1, 129>>>> }

\* a header of the dimensions of h whose parities differ from those of h by
\* the given masks and whose check sum confirms
HdrWithMasks(h, rmask, cmask) ==
    LET g == [h EXCEPT
                !.row_parities =
                    [k \in 1..h.B |-> Xor8(h.row_parities[k], rmask[k])],
                !.col_parities =
                    [k \in 1..h.N |-> Xor8(h.col_parities[k], cmask[k])]]
    IN  [g EXCEPT !.check_sum = calc_check_sum(g)]

RowMasks(B) ==
    { [k \in 1..B |-> 0], [k \in 1..B |-> IF k = 1 THEN 3 ELSE 0],
      [k \in 1..B |-> 16] }

ColMasks(N) ==
    { [k \in 1..N |-> 0], [k \in 1..N |-> IF k = 1 THEN 1 ELSE 0] }

\* What may arrive as the serialized header of byte array a with header h:
\* its serialization; that with the low bit of the first column parity
\* flipped; the serialization of a header of other parities; and that of the
\* header the sender constructs from a with B and N exchanged.
HdrTransmissions(h, a) ==
    { serialize(h),
      FlipBit(serialize(h), 8 * (PayloadOffset + h.B) + 7),
      serialize(ParityHdr(h.N, h.B, a)) }
        \cup { serialize(HdrWithMasks(h, rm, cm)) :
                 rm \in RowMasks(h.B), cm \in ColMasks(h.N) }

InitRepair ==
    /\ \E x \in SenderArrays :
         /\ s = x[3]
         /\ s_hdr = ParityHdr(x[1], x[2], x[3])
    /\ ser_PH = << >>
    /\ prev_hdr = EmptyHdr
    /\ rcvd_hdr = EmptyHdr
    /\ ret = FALSE
    /\ ret_line = 0
    /\ t_rcvd = << >>
    /\ t = << >>
    /\ t_hdr = EmptyHdr
    /\ obs_hdr = EmptyHdr
    /\ what = "none"
    /\ pc = "start"

\* rcvd_hdr.load_from_serialized(transmit(s_hdr_ser, n_bytes))
ReceiveHdr ==
    /\ pc = "start"
    /\ \E w \in HdrTransmissions(s_hdr, s) :
         LET r == load_from_serialized(rcvd_hdr, w)
         IN  /\ rcvd_hdr' = r.hdr
             /\ ret' = r.ret
             /\ ret_line' = r.line
    /\ pc' = "hdr"
    /\ UNCHANGED <<s, s_hdr, ser_PH, prev_hdr, t_rcvd, t, t_hdr, obs_hdr, what>>

\* t = transmit(s, B * N): up to MaxFlips bits are flipped when rcvd_hdr is
\* the sender's header, up to one otherwise
TransmitArray ==
    /\ pc = "hdr"
    /\ t' \in transmit(s, 0, IF rcvd_hdr = s_hdr THEN MaxFlips ELSE 1)
    /\ t_rcvd' = t'
    /\ pc' = "rcvd"
    /\ UNCHANGED <<s, s_hdr, ser_PH, prev_hdr, rcvd_hdr, ret, ret_line,
                   t_hdr, obs_hdr, what>>

\* ParityHdr t_hdr(B, N, t), with the dimensions of rcvd_hdr or with those
\* the byte array was sent with; B * N is the length of t
Observe ==
    /\ pc = "rcvd"
    /\ \E d \in {<<rcvd_hdr.B, rcvd_hdr.N>>, <<s_hdr.B, s_hdr.N>>} :
         /\ d[1] * d[2] = Len(t)
         /\ t_hdr' = ParityHdr(d[1], d[2], t)
    /\ pc' = "observed"
    /\ UNCHANGED <<s, s_hdr, ser_PH, prev_hdr, rcvd_hdr, ret, ret_line,
                   t_rcvd, t, obs_hdr, what>>

\* repair_byte_array(rcvd_hdr, t_hdr, t); the second argument may also be
\* rcvd_hdr itself
Repair ==
    /\ pc = "observed"
    /\ \E o \in {t_hdr, rcvd_hdr} :
         LET r == repair_byte_array(rcvd_hdr, o, t)
         IN  /\ obs_hdr' = o
             /\ t' = r.t
             /\ what' = r.what
    /\ pc' = "done"
    /\ UNCHANGED <<s, s_hdr, ser_PH, prev_hdr, rcvd_hdr, ret, ret_line,
                   t_rcvd, t_hdr>>

NextRepair == ReceiveHdr \/ TransmitArray \/ Observe \/ Repair

SpecRepair == InitRepair /\ [][NextRepair]_vars

(***************************************************************************)
(* Properties of the codec, over the states right after a load             *)
(* (pc = "loaded"): ser_PH is the input of the call, prev_hdr the target   *)
(* as the call found it, rcvd_hdr the target as the call left it.          *)
(***************************************************************************)
\* the byte offsets (from 1) at which two byte arrays differ
DiffAt(a, b) == {k \in 1..Len(a) : a[k] # b[k]}

\* rcvd is orig with exactly one bit flipped, in a byte at offset lo..hi
SingleBitFlipIn(orig, rcvd, lo, hi) ==
    /\ Len(rcvd) = Len(orig)
    /\ \E k \in (lo + 1)..(hi + 1) :
         /\ DiffAt(orig, rcvd) = {k}
         /\ Xor8(orig[k], rcvd[k]) \in {1, 2, 4, 8, 16, 32, 64, 128}

\* the duplicated prefix and the row parity sum are bytes 0..LastSumByte
LastSumByte == SumOffset + SizeofInt - 1

SameParities(g, h) ==
    /\ g.row_parities = h.row_parities
    /\ g.col_parities = h.col_parities

\* C1: loading the serialization of the sender's header returns true and
\* leaves the target equal (operator==) to that header and passing
\* confirm_check_sum, whatever state earlier loads left the target in.
RoundTrip ==
    (pc = "loaded" /\ ser_PH = serialize(s_hdr))
        => /\ ret = TRUE
           /\ HdrEq(rcvd_hdr, s_hdr)
           /\ confirm_check_sum(rcvd_hdr)

\* C1 witness: the round trip succeeded on a target that an earlier failed
\* load had left with dimensions that are not those of its arrays.
RoundTripAfterFailedLoad ==
    /\ pc = "loaded"
    /\ ser_PH = serialize(s_hdr)
    /\ ret = TRUE
    /\ HdrEq(rcvd_hdr, s_hdr)
    /\ prev_hdr.B # Len(prev_hdr.row_parities)
    /\ prev_hdr.check_sum # s_hdr.check_sum

\* C3: a serialized header with one bit flipped in the duplicated prefix
\* (bytes 0..15) or in the row parity sum (bytes 16..19) is refused.
CorruptionDetected ==
    (pc = "loaded"
       /\ SingleBitFlipIn(serialize(s_hdr), ser_PH, 0, LastSumByte))
        => ret = FALSE

\* C3 witness: a flip in the row parity sum was refused at the sum check.
SumFlipRefused ==
    /\ pc = "loaded"
    /\ SingleBitFlipIn(serialize(s_hdr), ser_PH, SumOffset, LastSumByte)
    /\ ret = FALSE
    /\ ret_line = 66

\* C4 (as claimed): when such a one-bit corruption is refused, every field of
\* the target is as it was before the call.
StateUnchangedOnRefusedCorruption ==
    (pc = "loaded"
       /\ SingleBitFlipIn(serialize(s_hdr), ser_PH, 0, LastSumByte)
       /\ ret = FALSE)
        => rcvd_hdr = prev_hdr

\* C5 (as claimed): a load that returns false, at whichever of its four
\* return statements, leaves both parity arrays as they were.
ParitiesKeptOnEveryFailure ==
    (pc = "loaded" /\ ret = FALSE) => SameParities(rcvd_hdr, prev_hdr)

\* C5 (amended): a load that returns at the prefix comparison, the
\* B + N > check_sum test or the row parity sum test leaves both parity
\* arrays as they were; a load that gets past the three replaces them by the
\* payload's B and N bytes, whether confirm_check_sum then holds or not.
ParitiesKeptUntilSumChecked ==
    pc = "loaded" =>
        /\ ret_line \in {57, 60, 66} =>
              (ret = FALSE /\ SameParities(rcvd_hdr, prev_hdr))
        /\ ret_line = 74 =>
              /\ rcvd_hdr.row_parities =
                   SubSeq(ser_PH, PayloadOffset + 1,
                          PayloadOffset + rcvd_hdr.B)
              /\ rcvd_hdr.col_parities =
                   SubSeq(ser_PH, PayloadOffset + rcvd_hdr.B + 1,
                          PayloadOffset + rcvd_hdr.B + rcvd_hdr.N)
        /\ ret_line \in {57, 60, 66, 74}

\* C5 witness: a load failed at the row parity sum test over a target that
\* owned parity arrays other than the payload's, and they are still there.
ParitiesKeptAtSumFailure ==
    /\ pc = "loaded"
    /\ ret_line = 66
    /\ prev_hdr.row_parities # << >>
    /\ rcvd_hdr.row_parities = prev_hdr.row_parities
    /\ prev_hdr.row_parities #
         SubSeq(ser_PH, PayloadOffset + 1, PayloadOffset + rcvd_hdr.B)

\* C9 (as claimed): in a header populated by construction from a byte array
\* or by a load that returned true, every column parity is 0 or 1.
ColParitiesAreBits ==
    /\ \A c \in DOMAIN s_hdr.col_parities : s_hdr.col_parities[c] \in {0, 1}
    /\ \A c \in DOMAIN t_hdr.col_parities : t_hdr.col_parities[c] \in {0, 1}
    /\ (pc = "loaded" /\ ret = TRUE) =>
         \A c \in DOMAIN rcvd_hdr.col_parities :
            rcvd_hdr.col_parities[c] \in {0, 1}

(***************************************************************************)
(* Properties of the repair, over the states right after a call of         *)
(* repair_byte_array (pc = "done"): rcvd_hdr and obs_hdr are the two       *)
(* headers passed, t_rcvd the byte array passed, t the byte array and what *)
(* the outcome the call left.                                              *)
(***************************************************************************)
\* h is the header constructed from byte array a with the dimensions of h
DerivedFrom(h, a) ==
    /\ h.B * h.N = Len(a)
    /\ h = ParityHdr(h.B, h.N, a)

\* the trusted header is derived from the original array and the observed
\* one, of the same dimensions, from the array as received
HeadersDerived ==
    /\ DerivedFrom(rcvd_hdr, s)
    /\ obs_hdr.B = rcvd_hdr.B
    /\ obs_hdr.N = rcvd_hdr.N
    /\ DerivedFrom(obs_hdr, t_rcvd)

PowersOfTwo == {1, 2, 4, 8, 16, 32, 64, 128}

\* rcvd is orig with exactly two bits flipped, in two bytes that lie in
\* different byte rows and in different columns of the B-row layout
TwoBitFlipsApart(orig, rcvd, B) ==
    /\ Len(rcvd) = Len(orig)
    /\ \E k1, k2 \in 1..Len(orig) :
         /\ DiffAt(orig, rcvd) = {k1, k2}
         /\ Xor8(orig[k1], rcvd[k1]) \in PowersOfTwo
         /\ Xor8(orig[k2], rcvd[k2]) \in PowersOfTwo
         /\ (k1 - 1) % B # (k2 - 1) % B
         /\ (k1 - 1) \div B # (k2 - 1) \div B

\* the columns and the rows in which two headers of equal dimensions differ
ColsDiffering(g, h) == {c \in 1..g.N : g.col_parities[c] # h.col_parities[c]}
RowsDiffering(g, h) == {r \in 1..g.B : g.row_parities[r] # h.row_parities[r]}

\* the number of bits in which bytes x and y differ
BitsDiffering(x, y) ==
    Cardinality({k \in 0..7 : (x \div (2 ^ k)) % 2 # (y \div (2 ^ k)) % 2})

\* C2: if the array received is the original with one bit flipped, whichever
\* of its 8 * B * N bits, the trusted header is derived from the original and
\* the observed header from the received array with the same dimensions,
\* repair_byte_array throws nothing and leaves the array equal to the original.
SingleBitCorrection ==
    (pc = "done" /\ HeadersDerived
       /\ SingleBitFlipIn(s, t_rcvd, 0, Len(s) - 1))
        => (what = Ok /\ t = s)

\* C2 witness: B = N = 3, nine zero bytes, bit 3 from the most significant
\* bit of the byte at offset 4 flipped: the headers differ in column 1 and in
\* row 1 alone and the bit is flipped back.
Scenario3x3Repaired ==
    /\ pc = "done"
    /\ s = <<0, 0, 0, 0, 0, 0, 0, 0, 0>>
    /\ rcvd_hdr = s_hdr
    /\ rcvd_hdr.B = 3
    /\ t_rcvd = <<0, 0, 0, 0, 16, 0, 0, 0, 0>>
    /\ obs_hdr = t_hdr
    /\ HeadersDerived
    /\ ColsDiffering(rcvd_hdr, obs_hdr) = {2}
    /\ RowsDiffering(rcvd_hdr, obs_hdr) = {2}
    /\ what = Ok
    /\ t = s

\* C6: if the array received differs from the original in exactly two bits,
\* in different byte rows and different columns, and the headers are derived
\* as in C2, repair_byte_array throws a PC_Exception saying that more than one
\* column or row had a parity mismatch, and the array is not modified.
UncorrectableDetected ==
    (pc = "done" /\ HeadersDerived
       /\ TwoBitFlipsApart(s, t_rcvd, rcvd_hdr.B))
        => /\ what \in {MultiCol, MultiRow}
           /\ ExceptionClass(what) = "PC_Exception"
           /\ t = t_rcvd

\* C6 witness: such a pair of flips was refused.
TwoFlipsRefused ==
    /\ pc = "done"
    /\ HeadersDerived
    /\ TwoBitFlipsApart(s, t_rcvd, rcvd_hdr.B)
    /\ what = MultiCol
    /\ t = t_rcvd
    /\ t # s

\* C7 (as claimed): whenever the two headers passed are equal (operator==),
\* the call throws nothing and every byte of the array is unchanged.
NoOpOnEqualHeaders ==
    (pc = "done" /\ HdrEq(rcvd_hdr, obs_hdr))
        => (what = Ok /\ t = t_rcvd)

\* C7 (amended): whenever the two headers passed are equal and the trusted
\* one satisfies confirm_check_sum, the call throws nothing and every byte
\* of the array is unchanged.
NoOpOnEqualConfirmedHeaders ==
    (pc = "done" /\ HdrEq(rcvd_hdr, obs_hdr) /\ confirm_check_sum(rcvd_hdr))
        => (what = Ok /\ t = t_rcvd)

\* C7 witness: the header constructed from the received array equals the
\* confirmed trusted header and the call did nothing.
EqualHeadersNoOp ==
    /\ pc = "done"
    /\ obs_hdr = t_hdr
    /\ DerivedFrom(obs_hdr, t_rcvd)
    /\ HdrEq(rcvd_hdr, obs_hdr)
    /\ confirm_check_sum(rcvd_hdr)
    /\ what = Ok
    /\ t = t_rcvd

\* C8: if the trusted header does not satisfy confirm_check_sum, the call
\* throws the bad check sum error, whatever the observed header and the
\* array are, and the array is unchanged.
BadCheckSumFirst ==
    (pc = "done" /\ ~confirm_check_sum(rcvd_hdr))
        => (what = BadCheckSum /\ t = t_rcvd)

\* C8 witness: an unconfirmed trusted header met the header of an array that
\* arrived with a flipped bit, and the call threw the bad check sum error.
UnconfirmedRefused ==
    /\ pc = "done"
    /\ ~confirm_check_sum(rcvd_hdr)
    /\ DerivedFrom(obs_hdr, t_rcvd)
    /\ ~HdrEq(rcvd_hdr, obs_hdr)
    /\ t_rcvd # s
    /\ what = BadCheckSum
    /\ t = t_rcvd

\* what the localization must report for a confirmed trusted header g and
\* an unequal header h of the same dimensions: columns first, then rows,
\* then the bits of the one mismatching row parity byte
ExpectedOutcome(g, h) ==
    LET nc == Cardinality(ColsDiffering(g, h))
        nr == Cardinality(RowsDiffering(g, h))
        r  == CHOOSE x \in RowsDiffering(g, h) : TRUE
    IN  IF nc = 0 THEN NoCol
        ELSE IF nc > 1 THEN MultiCol
        ELSE IF nr = 0 THEN NoRow
        ELSE IF nr > 1 THEN MultiRow
        ELSE IF BitsDiffering(g.row_parities[r], h.row_parities[r]) # 1
             THEN MultiBit
        ELSE Ok

\* C10: for unequal headers of equal dimensions and a confirmed trusted
\* header the outcome is decided by the column parities first (none
\* differs: no column located; several: multiple columns), then by the row
\* parities (none: no row located; several: multiple rows), then by the bits
\* of the one differing row parity byte (not exactly one: multiple bad
\* bits); the five reasons differ from one another and from the bad check
\* sum and dimension mismatch errors; whenever the call throws, the array is
\* unchanged.
LocalizationOrder ==
    /\ Cardinality({NoCol, MultiCol, NoRow, MultiRow, MultiBit,
                    BadCheckSum, DimensionMismatch}) = 7
    /\ pc = "done" => (what # Ok => t = t_rcvd)
    /\ (pc = "done" /\ confirm_check_sum(rcvd_hdr)
          /\ ~HdrEq(rcvd_hdr, obs_hdr)
          /\ rcvd_hdr.B = obs_hdr.B /\ rcvd_hdr.N = obs_hdr.N)
         => what = ExpectedOutcome(rcvd_hdr, obs_hdr)

\* C10 witness: several columns and several rows differ, and the column
\* failure is the one reported.
ColumnFailureReportedFirst ==
    /\ pc = "done"
    /\ confirm_check_sum(rcvd_hdr)
    /\ rcvd_hdr.B = obs_hdr.B /\ rcvd_hdr.N = obs_hdr.N
    /\ Cardinality(ColsDiffering(rcvd_hdr, obs_hdr)) > 1
    /\ Cardinality(RowsDiffering(rcvd_hdr, obs_hdr)) > 1
    /\ what = MultiCol
    /\ t = t_rcvd

(***************************************************************************)
(* The shape of a header: the bytes its two arrays own against B and N.    *)
(***************************************************************************)
\* C11 (as claimed): after every construction and every load, successful
\* or refused at any step, row_parities owns B bytes and col_parities owns N
\* bytes.  Refuted: a load refused at line 60 or 66 has already adopted B
\* and N (line 58) and leaves the arrays of the previous state.
HeaderShape ==
    /\ Len(rcvd_hdr.row_parities) = rcvd_hdr.B
    /\ Len(rcvd_hdr.col_parities) = rcvd_hdr.N

(***************************************************************************)
(* What a call of repair_byte_array that throws nothing has done.          *)
(***************************************************************************)
\* the number of bit positions in which two byte arrays of equal length
\* differ
BitsApart(a, b) ==
    Cardinality({x \in (1..Len(a)) \X (0..7) :
                   (a[x[1]] \div (2 ^ x[2])) % 2 # (b[x[1]] \div (2 ^ x[2])) % 2})

\* byte arrays the trusted header may be derived from besides the sender's:
\* those that differ from it in the first byte
TrustedBuffers == {[s EXCEPT ![1] = v] : v \in 0..(ByteMod - 1)}

\* the trusted header is derived from some byte array and the observed one,
\* of the same dimensions, from the array as received
HeadersDerivedFromSome ==
    /\ obs_hdr.B = rcvd_hdr.B
    /\ obs_hdr.N = rcvd_hdr.N
    /\ DerivedFrom(obs_hdr, t_rcvd)
    /\ \/ DerivedFrom(rcvd_hdr, s)
       \/ \E x \in TrustedBuffers : DerivedFrom(rcvd_hdr, x)

\* C12: whenever repair_byte_array throws nothing, the trusted header being
\* derived from some byte array of B * N bytes and the observed header from
\* the received array with the same dimensions, the array has kept its
\* length, no bit or exactly one bit of it has changed, and the header
\* constructed from the array as the call left it equals the trusted header,
\* however many bits the received array differs in.
RepairPostcondition ==
    (pc = "done" /\ what = Ok /\ HeadersDerivedFromSome)
        => /\ Len(t) = rcvd_hdr.B * rcvd_hdr.N
           /\ Len(t_rcvd) = Len(t)
           /\ BitsApart(t_rcvd, t) <= 1
           /\ HdrEq(ParityHdr(rcvd_hdr.B, rcvd_hdr.N, t), rcvd_hdr)
           /\ ParityHdr(rcvd_hdr.B, rcvd_hdr.N, t) = rcvd_hdr

\* witness of C12: the received array is three or more bits away from an
\* array the trusted header is derived from; the call throws nothing, flips
\* one bit and leaves an array that is not that one, yet of the same header.
MultiBitRepairAccepted ==
    /\ pc = "done" /\ what = Ok /\ HeadersDerivedFromSome
    /\ \E x \in TrustedBuffers :
         /\ DerivedFrom(rcvd_hdr, x)
         /\ BitsApart(x, t_rcvd) >= 3
         /\ t # x
    /\ BitsApart(t_rcvd, t) = 1
    /\ ParityHdr(rcvd_hdr.B, rcvd_hdr.N, t) = rcvd_hdr

====
